---- MODULE Spec2Model ----
(***************************************************************************)
(* POS backend (src/pos_backend_by_rk/run.py): a FastAPI service that      *)
(* keeps its data in the tabs of a spreadsheet.  The model covers the      *)
(* record mapper (to_dicts), the lookups, the reseller price resolver,     *)
(* the price arithmetic, the stock listing and the two sale handlers       *)
(* (pos_sale, checkout) with their store calls and the event they fire.    *)
(*                                                                         *)
(* Cells are strings, as the spreadsheet returns them.  A missing value    *)
(* (Python None) is the string None.  A dict is a function from keys to    *)
(* cells; {} is the function with the empty domain.  Numbers are integers  *)
(* (the code uses floats; no claim depends on fractions).                  *)
(***************************************************************************)
EXTENDS Integers, Sequences, FiniteSets, TLC

\* ------------------------------------------------------------------ bounds
\* Largest magnitude of a number a cell can hold in the model.
MaxNum == 40
\* Longest ResellerPricing / Stock / Users table (data rows) drawn as input.
MaxRows == 2
\* Longest item list of a checkout request.
MaxItems == 2

\* ------------------------------------------------------- python primitives
None == "None"
EmptyDict == [k \in {} |-> ""]

Range(s) == {s[i] : i \in 1..Len(s)}

\* s is falsy in Python: None or the empty string.
Falsy(s) == s = None \/ s = ""

\* d.get(k): None when the key is absent.
Get(d, k) == IF k \in DOMAIN d THEN d[k] ELSE None
\* d.get(k, dflt)
GetOr(d, k, dflt) == IF k \in DOMAIN d THEN d[k] ELSE dflt

\* float(s) for a cell: the decimal numerals parse, everything else raises
\* ValueError.  IsNumeric(s) is "float(s) does not raise".
NumRange == (0 - MaxNum)..MaxNum
IsNumeric(s) == \E n \in NumRange : ToString(n) = s
ParseFloat(s) == CHOOSE n \in NumRange : ToString(n) = s

\* int(v) for a JSON value written as its text: an integer numeral converts,
\* any other text raises ValueError.  IsInt(v) is "int(v) does not raise".
IsInt(v) == \E n \in NumRange : ToString(n) = v
int(v) == CHOOSE n \in NumRange : ToString(n) = v

\* datetime.date values are ordinals yyyymmdd, which order as dates do.
DATE_MIN == 19700101
DATE_MAX == 99991231
IsoDate == [d \in {"1970-01-01", "2024-01-01", "2024-03-31", "2024-06-01",
                   "2024-07-01", "2024-12-31"} |->
              CASE d = "1970-01-01" -> DATE_MIN
                [] d = "2024-01-01" -> 20240101
                [] d = "2024-03-31" -> 20240331
                [] d = "2024-06-01" -> 20240601
                [] d = "2024-07-01" -> 20240701
                [] d = "2024-12-31" -> 20241231]
\* datetime.date.fromisoformat(s): raises ValueError unless s is an ISO date.
IsIsoDate(s) == s \in DOMAIN IsoDate
fromisoformat(s) == IsoDate[s]

\* ------------------------------------------------------------ record mapper
\* Index of the last occurrence of h in headers: in the dict comprehension
\* of to_dicts a repeated header keeps the cell of its last column.
LastIndex(headers, h) ==
    CHOOSE i \in 1..Len(headers) :
        /\ headers[i] = h
        /\ \A j \in (i+1)..Len(headers) : headers[j] # h

\* to_dicts(rows): the first row is the header, a missing trailing cell is "".
to_dicts(rows) ==
    IF rows = <<>> THEN <<>>
    ELSE LET headers == rows[1]
         IN [j \in 1..(Len(rows) - 1) |->
                LET r == rows[j + 1]
                IN [h \in Range(headers) |->
                       LET i == LastIndex(headers, h)
                       IN IF i <= Len(r) THEN r[i] ELSE ""]]

\* ----------------------------------------------------------- price resolver
\* Outcome of a call: raised = TRUE when an exception leaves the function.
Returned(v) == [raised |-> FALSE, value |-> v]
Raised == [raised |-> TRUE, value |-> EmptyDict]

\* valid_from / valid_to of a row as the loop body computes them.
VfDate(r) ==
    LET vf == GetOr(r, "valid_from", "")
    IN IF vf # "" /\ IsIsoDate(vf) THEN fromisoformat(vf) ELSE DATE_MIN
VtDate(r) ==
    LET vt == GetOr(r, "valid_to", "")
    IN IF vt # "" /\ IsIsoDate(vt) THEN fromisoformat(vt) ELSE DATE_MAX

\* The loop of lookup_reseller_price from row i on, with the current best.
\* The comparison against best re-parses best's valid_from without a guard,
\* so it raises when that cell is not an ISO date.
RECURSIVE PriceScan(_, _, _, _, _, _)
PriceScan(rows, i, best, reseller_id, product_id, on_date) ==
    IF i > Len(rows) THEN Returned(best)
    ELSE LET r == rows[i]
         IN IF Get(r, "reseller_id") # reseller_id \/ Get(r, "product_id") # product_id
            THEN PriceScan(rows, i + 1, best, reseller_id, product_id, on_date)
            ELSE IF VfDate(r) <= on_date /\ on_date <= VtDate(r)
                 THEN IF best = EmptyDict
                      THEN PriceScan(rows, i + 1, r, reseller_id, product_id, on_date)
                      ELSE LET bvf == GetOr(best, "valid_from", "1970-01-01")
                           IN IF ~IsIsoDate(bvf) THEN Raised
                              ELSE IF VfDate(r) >= fromisoformat(bvf)
                                   THEN PriceScan(rows, i + 1, r, reseller_id, product_id, on_date)
                                   ELSE PriceScan(rows, i + 1, best, reseller_id, product_id, on_date)
                 ELSE PriceScan(rows, i + 1, best, reseller_id, product_id, on_date)

\* lookup_reseller_price over the rows of the ResellerPricing tab.
lookup_reseller_price(tab, reseller_id, product_id, on_date) ==
    PriceScan(to_dicts(tab), 1, EmptyDict, reseller_id, product_id, on_date)

\* ---------------------------------------------------------------- lookups
RECURSIVE FirstUser(_, _, _)
FirstUser(us, i, user_id) ==
    IF i > Len(us) THEN EmptyDict
    ELSE IF Get(us[i], "user_id") = user_id THEN us[i]
         ELSE FirstUser(us, i + 1, user_id)

\* lookup_user: no store read at all when user_id is falsy.
lookup_user(tab, user_id) ==
    IF Falsy(user_id) THEN EmptyDict ELSE FirstUser(to_dicts(tab), 1, user_id)

\* Variant: a product_id match anywhere is preferred to a short_id match.
FirstProduct_id_first(ps, i, product_id, short_id) ==
    LET byId == {k \in i..Len(ps) :
                    ~Falsy(product_id) /\ Get(ps[k], "product_id") = product_id}
        bySid == {k \in i..Len(ps) :
                    ~Falsy(short_id) /\ Get(ps[k], "short_id") = short_id}
        Least(S) == CHOOSE k \in S : \A m \in S : k <= m
    IN IF byId # {} THEN ps[Least(byId)]
       ELSE IF bySid # {} THEN ps[Least(bySid)]
            ELSE EmptyDict

RECURSIVE FirstProduct(_, _, _, _)
FirstProduct(ps, i, product_id, short_id) ==
    IF i > Len(ps) THEN EmptyDict
    ELSE IF ~Falsy(product_id) /\ Get(ps[i], "product_id") = product_id THEN ps[i]
         ELSE IF ~Falsy(short_id) /\ Get(ps[i], "short_id") = short_id THEN ps[i]
              ELSE FirstProduct(ps, i + 1, product_id, short_id)

lookup_product(tab, product_id, short_id) ==
    FirstProduct(to_dicts(tab), 1, product_id, short_id)

\* ------------------------------------------------------- price arithmetic
\* a or b
OrElse(a, b) == IF Falsy(a) THEN b ELSE a

\* Variant: the reseller price is never looked at.
PriceFirst_base(rp, prod) == OrElse(Get(prod, "base_price"), "0")

\* try: price = float(rp.get("price") or prod.get("base_price") or 0)
\* except: price = float(prod.get("base_price") or 0)
\* The handler's float() in the except branch is unguarded.
PriceFirst(rp, prod) == OrElse(Get(rp, "price"), OrElse(Get(prod, "base_price"), "0"))
PriceSecond(prod) == OrElse(Get(prod, "base_price"), "0")
PriceRaises(rp, prod) ==
    ~IsNumeric(PriceFirst(rp, prod)) /\ ~IsNumeric(PriceSecond(prod))
PriceOf(rp, prod) ==
    IF IsNumeric(PriceFirst(rp, prod)) THEN ParseFloat(PriceFirst(rp, prod))
    ELSE ParseFloat(PriceSecond(prod))

\* try: commission_pct = float(rp.get("commission_pct") or 0)
\* except: commission_pct = 0.0
CommissionOf(rp) ==
    LET c == OrElse(Get(rp, "commission_pct"), "0")
    IN IF IsNumeric(c) THEN ParseFloat(c) ELSE 0

\* ---------------------------------------------------------- stock listing
\* get_stock(reseller_id, user_id) over the Stock and Users tabs.
get_stock(stock_tab, users_tab, reseller_id, user_id) ==
    LET items == to_dicts(stock_tab)
        ByReseller(rid) == SelectSeq(items, LAMBDA x : Get(x, "reseller_id") = rid)
    IN IF ~Falsy(user_id)
       THEN LET u == lookup_user(users_tab, user_id)
                rid == IF u # EmptyDict THEN Get(u, "user_id") ELSE None
            IN IF ~Falsy(rid) THEN ByReseller(rid) ELSE items
       ELSE IF ~Falsy(reseller_id) THEN ByReseller(reseller_id)
            ELSE items

\* -------------------------------------------------------- stock adjustment
\* hdr.index(x) raises ValueError when x is not a header.
HasCol(hdr, x) == \E i \in 1..Len(hdr) : hdr[i] = x
Index(hdr, x) == CHOOSE i \in 1..Len(hdr) : hdr[i] = x /\ \A j \in 1..(i-1) : hdr[j] # x

\* r[idx] if len(r) > idx else ""
CellOr(r, idx) == IF Len(r) >= idx THEN r[idx] ELSE ""

\* The spreadsheet drops the trailing empty cells of a row it returns.
RECURSIVE SheetRow(_)
SheetRow(r) ==
    IF r # <<>> /\ r[Len(r)] = "" THEN SheetRow(SubSeq(r, 1, Len(r) - 1)) ELSE r

\* r[:] + [""] * (len(hdr) - len(r))
RECURSIVE Blanks(_)
Blanks(n) == IF n <= 0 THEN <<>> ELSE <<"">> \o Blanks(n - 1)
Padded(r, hdr) == r \o Blanks(Len(hdr) - Len(r))

\* Sheet position (header is row 1) of the first row matching the pair,
\* 0 when there is none.
RECURSIVE FirstMatch(_, _, _, _, _, _)
FirstMatch(rows, i, pid_idx, rid_idx, product_id, reseller_id) ==
    IF i > Len(rows) THEN 0
    ELSE IF CellOr(rows[i], pid_idx) = product_id /\ CellOr(rows[i], rid_idx) = reseller_id
         THEN i
         ELSE FirstMatch(rows, i + 1, pid_idx, rid_idx, product_id, reseller_id)

NoUpdate == [update |-> FALSE, row_idx |-> 0, row_values |-> <<>>]

\* Variant: the new quantity is floored at zero.
StockPlan_floored(stock_rows, reseller_id, product_id, qty) ==
    IF stock_rows = <<>> THEN NoUpdate
    ELSE LET hdr == stock_rows[1]
         IN IF ~(HasCol(hdr, "product_id") /\ HasCol(hdr, "reseller_id")
                 /\ HasCol(hdr, "reseller_qty"))
            THEN NoUpdate
            ELSE IF Falsy(reseller_id) THEN NoUpdate
            ELSE LET pid_idx == Index(hdr, "product_id")
                     rid_idx == Index(hdr, "reseller_id")
                     qty_idx == Index(hdr, "reseller_qty")
                     i == FirstMatch(stock_rows, 2, pid_idx, rid_idx, product_id, reseller_id)
                 IN IF i = 0 THEN NoUpdate
                    ELSE LET r == stock_rows[i]
                             c == CellOr(r, qty_idx)
                         IN IF c # "" /\ ~IsNumeric(c) THEN NoUpdate
                            ELSE LET cur == IF c # "" THEN ParseFloat(c) ELSE 0
                                     new == IF cur - qty < 0 THEN 0 ELSE cur - qty
                                     r_out == [Padded(r, hdr) EXCEPT ![qty_idx] = ToString(new)]
                                 IN [update |-> TRUE, row_idx |-> i, row_values |-> r_out]

\* What the stock block of a handler does with the rows it has just read:
\* either nothing, or one update_row call.  A quantity cell that float()
\* rejects raises ValueError inside the try, which the handler passes over.
StockPlan(stock_rows, reseller_id, product_id, qty) ==
    IF stock_rows = <<>> THEN NoUpdate
    ELSE LET hdr == stock_rows[1]
         IN IF ~(HasCol(hdr, "product_id") /\ HasCol(hdr, "reseller_id")
                 /\ HasCol(hdr, "reseller_qty"))
            THEN NoUpdate
            ELSE IF Falsy(reseller_id) THEN NoUpdate
            ELSE LET pid_idx == Index(hdr, "product_id")
                     rid_idx == Index(hdr, "reseller_id")
                     qty_idx == Index(hdr, "reseller_qty")
                     i == FirstMatch(stock_rows, 2, pid_idx, rid_idx, product_id, reseller_id)
                 IN IF i = 0 THEN NoUpdate
                    ELSE LET r == stock_rows[i]
                             c == CellOr(r, qty_idx)
                         IN IF c # "" /\ ~IsNumeric(c) THEN NoUpdate
                            ELSE LET cur == IF c # "" THEN ParseFloat(c) ELSE 0
                                     r_out == [Padded(r, hdr) EXCEPT ![qty_idx] = ToString(cur - qty)]
                                 IN [update |-> TRUE, row_idx |-> i, row_values |-> r_out]

\* Variant: the row is written one position too high, as if the scan had
\* counted the data rows from 1.
update_row_off_by_one(tab, row_idx, row_values) ==
    [tab EXCEPT ![row_idx - 1] = SheetRow(row_values)]

\* update_row: overwrite sheet row row_idx of the tab with row_values.
update_row(tab, row_idx, row_values) ==
    [tab EXCEPT ![row_idx] = SheetRow(row_values)]

\* =================================================================== state
VARIABLES
    stock,      \* the Stock tab: header row followed by the data rows
    sales,      \* the Sales tab: the appended sale rows, oldest first
    reqs,       \* the JSON body of each request
    pc,         \* where each request's handler stands
    loc,        \* the handler's local variables
    running,    \* requests whose handler is executing on the event loop
    resp,       \* the response each request got
    calls,      \* per request, the store calls it has made, in order
    events,     \* the fire_event calls made, in order
    ha_token,   \* whether SUPERVISOR_TOKEN is set (HA_TOKEN)
    fin,        \* arguments of a function under test
    fout        \* its result

vars == <<stock, sales, reqs, pc, loc, running, resp, calls, events, ha_token, fin, fout>>
machine == <<stock, sales, reqs, pc, loc, running, resp, calls, events, ha_token>>

\* --------------------------------------------------------- store contents
Today == 20240701

UsersTab ==
    << <<"user_id", "person_entity_id", "reseller_id">>,
       <<"U1", "person.anna", "R1">> >>

ProductsTab ==
    << <<"product_id", "short_id", "base_price">>,
       <<"P1", "S1", "10">>,
       <<"P2", "S2", "7">>,
       <<"P3", "S3", "abc">> >>

PricingHeader ==
    <<"reseller_id", "product_id", "valid_from", "valid_to", "price", "commission_pct">>
PricingTab ==
    << PricingHeader,
       <<"R1", "P1", "2024-01-01", "2024-12-31", "12", "5">>,
       <<"R1", "P1", "2024-06-01", "2024-12-31", "11", "6">> >>

StockHeader == <<"product_id", "reseller_id", "reseller_qty">>
StockTabs ==
    { << StockHeader, <<"P1", "R1", "10">>, <<"P2", "R1">>, <<"P1", "R1", "3">> >>,
      << <<"product_id", "reseller_id">>, <<"P1", "R1">> >> }

\* ---------------------------------------------------------------- requests
Reqs == {1, 2}

\* A line as it arrives in the JSON body; qty is the text of its JSON value.
RawItem(pid, sid, q) == [product_id |-> pid, short_id |-> sid, qty |-> q]
Item(pid, sid, q) == RawItem(pid, sid, ToString(q))
\* Lines a checkout can carry: P1 by product_id, P2 by its short_id, P3
\* (whose base_price is not a number) and a product that does not exist.
Items ==
    { Item("P1", None, 4), Item(None, "S2", 3), Item("P3", None, 1), Item("PX", None, 1) }
\* A sale can also come without product_id and short_id, or with a qty that
\* is not a number.
SaleItems ==
    Items \cup { Item(None, None, 1), RawItem(None, None, "x"),
                 RawItem("P1", None, "x"), RawItem("PX", None, "x") }

RECURSIVE SeqsUpTo(_, _)
SeqsUpTo(S, n) ==
    IF n = 0 THEN {<<>>}
    ELSE LET shorter == SeqsUpTo(S, n - 1)
         IN shorter \cup {Append(q, x) : q \in {t \in shorter : Len(t) = n - 1}, x \in S}

\* Who sells: nobody named, user U1 for reseller R1, and a user_id that is
\* not in Users.
Anonymous == [user_id |-> "", reseller_id |-> ""]
AnnaR1 == [user_id |-> "U1", reseller_id |-> "R1"]
Principals == { Anonymous, AnnaR1, [user_id |-> "U9", reseller_id |-> "R1"] }
\* A sale can also be made for reseller R2, who has no Stock row and no price.
SalePrincipals == Principals \cup { [user_id |-> "U1", reseller_id |-> "R2"] }

Body(kind, who, is_list, items) ==
    [kind |-> kind, user_id |-> who.user_id, reseller_id |-> who.reseller_id,
     customer_id |-> "C-000", payment_method |-> "cash",
     items_is_list |-> is_list, items |-> items]

\* A sale body carries its one line in the top-level fields; it is kept as a
\* one-item list here.
SaleBodies(its, whos) == {Body("sale", w, TRUE, <<it>>) : it \in its, w \in whos}
CheckoutBodies(its, whos) ==
    {Body("checkout", w, TRUE, l) : l \in SeqsUpTo(its, MaxItems), w \in whos}
      \cup {Body("checkout", w, FALSE, <<>>) : w \in whos}

\* Request 1 ranges over the sale and checkout bodies; request 2 sells 5 of
\* P1 for reseller R1.
Bodies(r) ==
    IF r = 1 THEN SaleBodies(SaleItems, SalePrincipals)
                    \cup CheckoutBodies(Items, {Anonymous, AnnaR1})
    ELSE SaleBodies({Item("P1", None, 5)}, {AnnaR1})

\* ---------------------------------------------------------------- handlers
NoLocals ==
    [idx |-> 0, person_entity_id |-> "", prod |-> EmptyDict, price |-> 0,
     commission_pct |-> 0, total |-> 0, grand_total |-> 0, written |-> 0,
     plan |-> NoUpdate]

NoResp == [code |-> 0, detail |-> "", total |-> 0, lines |-> 0, price |-> 0, commission_pct |-> 0]
ErrResp(code, detail) == [NoResp EXCEPT !.code = code, !.detail = detail]

Call(op, tab, item, ok) == [op |-> op, tab |-> tab, item |-> item, ok |-> ok]

\* Variant: handlers run in worker threads, so any of them may run.
CanResume_threaded(run) == TRUE

\* pos_sale and checkout are coroutines that await only the request body
\* (req.json()); every call after it blocks the event loop of the single
\* uvicorn process, so a handler resumes only when no other one is running.
CanResume(run) == run = {}

InitMachine ==
    /\ stock \in StockTabs
    /\ sales = <<>>
    /\ reqs \in [Reqs -> UNION {Bodies(r) : r \in Reqs}]
    /\ \A r \in Reqs : reqs[r] \in Bodies(r)
    /\ pc = [r \in Reqs |-> "recv"]
    /\ loc = [r \in Reqs |-> NoLocals]
    /\ running = {}
    /\ resp = [r \in Reqs |-> NoResp]
    /\ calls = [r \in Reqs |-> <<>>]
    /\ events = <<>>
    /\ ha_token \in BOOLEAN

Init ==
    /\ InitMachine
    /\ fin = <<>>
    /\ fout = [called |-> FALSE]

\* The handler of r ends with response rs.
Finish(r, rs) ==
    /\ pc' = [pc EXCEPT ![r] = "done"]
    /\ resp' = [resp EXCEPT ![r] = rs]
    /\ running' = running \ {r}

Goto(r, label) ==
    /\ pc' = [pc EXCEPT ![r] = label]
    /\ UNCHANGED <<resp, running>>

Logged(r, c) == calls' = [calls EXCEPT ![r] = Append(@, c)]

\* Body received: parse it and validate (lines 129-135, 167-170).  pos_sale
\* converts qty before it validates the keys.
Begin(r) ==
    /\ pc[r] = "recv"
    /\ CanResume(running)
    /\ LET b == reqs[r]
       IN IF b.kind = "sale"
          THEN IF ~IsInt(b.items[1].qty)
               THEN /\ pc' = [pc EXCEPT ![r] = "done"]
                    /\ resp' = [resp EXCEPT ![r] = ErrResp(500, "ValueError")]
                    /\ UNCHANGED running
               ELSE IF Falsy(b.items[1].product_id) /\ Falsy(b.items[1].short_id)
               THEN /\ pc' = [pc EXCEPT ![r] = "done"]
                    /\ resp' = [resp EXCEPT ![r] = ErrResp(400, "product_id or short_id required")]
                    /\ UNCHANGED running
               ELSE /\ pc' = [pc EXCEPT ![r] = "user"]
                    /\ running' = running \cup {r}
                    /\ UNCHANGED resp
          ELSE IF ~b.items_is_list \/ b.items = <<>>
               THEN /\ pc' = [pc EXCEPT ![r] = "done"]
                    /\ resp' = [resp EXCEPT ![r] = ErrResp(400, "No items")]
                    /\ UNCHANGED running
               ELSE /\ pc' = [pc EXCEPT ![r] = "user"]
                    /\ running' = running \cup {r}
                    /\ UNCHANGED resp
    /\ UNCHANGED <<stock, sales, reqs, loc, calls, events, ha_token, fin, fout>>

\* u = lookup_user(...); person_entity_id = ... (lines 137, 174)
LookupUser(r) ==
    /\ pc[r] = "user"
    /\ r \in running
    /\ LET u == lookup_user(UsersTab, reqs[r].user_id)
           person == IF u # EmptyDict THEN GetOr(u, "person_entity_id", "") ELSE ""
       IN loc' = [loc EXCEPT ![r].person_entity_id = person, ![r].idx = 1]
    /\ IF Falsy(reqs[r].user_id) THEN UNCHANGED calls
       ELSE Logged(r, Call("read", "Users", 0, TRUE))
    /\ Goto(r, "product")
    /\ UNCHANGED <<stock, sales, reqs, events, ha_token, fin, fout>>

\* Variant: the event is published inside the loop, after the first item.
NextLabel_in_loop(r) == "notify"

\* After the stock block: the next item of a checkout, else the event.
NextLabel(r) ==
    IF reqs[r].kind = "checkout" /\ loc[r].idx < Len(reqs[r].items) THEN "product"
    ELSE "notify"
NextIdx(r) ==
    IF reqs[r].kind = "checkout" /\ loc[r].idx < Len(reqs[r].items) THEN loc[r].idx + 1
    ELSE loc[r].idx

\* Variant: an item whose product is not found is skipped.
LookupProduct_continue(r) ==
    /\ pc[r] = "product"
    /\ r \in running
    /\ LET it == reqs[r].items[loc[r].idx]
           prod == lookup_product(ProductsTab, it.product_id, it.short_id)
       IN /\ Logged(r, Call("read", "Products", loc[r].idx, TRUE))
          /\ IF prod = EmptyDict
             THEN /\ loc' = [loc EXCEPT ![r].prod = prod, ![r].idx = NextIdx(r)]
                  /\ Goto(r, NextLabel(r))
             ELSE IF reqs[r].kind = "checkout" /\ ~IsInt(it.qty)
             THEN /\ loc' = [loc EXCEPT ![r].prod = prod]
                  /\ Finish(r, ErrResp(500, "ValueError"))
             ELSE /\ loc' = [loc EXCEPT ![r].prod = prod]
                  /\ Goto(r, "price")
    /\ UNCHANGED <<stock, sales, reqs, events, ha_token, fin, fout>>

\* repr() of a JSON value of the body: None, a quoted string, and for qty
\* the bare numeral when the value is a number.
PyRepr(v) == IF v = None THEN "None" ELSE "'" \o v \o "'"
QtyRepr(q) == IF IsInt(q) THEN q ELSE PyRepr(q)
\* f"{it}": the item dict as Python prints it.
ItemRepr(it) ==
    "{'product_id': " \o PyRepr(it.product_id) \o ", 'short_id': " \o PyRepr(it.short_id)
        \o ", 'qty': " \o QtyRepr(it.qty) \o "}"
\* detail of the 404: pos_sale gives the bare text (line 139), checkout adds
\* the item (line 178).
NotFoundDetail(r) ==
    IF reqs[r].kind = "sale" THEN "Product not found"
    ELSE "Product not found: " \o ItemRepr(reqs[r].items[loc[r].idx])

\* prod = lookup_product(...) is assigned whatever it returns (lines 138,
\* 177); 404 when not found (lines 139, 178); checkout converts the item's
\* qty only now (line 180).
LookupProduct(r) ==
    /\ pc[r] = "product"
    /\ r \in running
    /\ LET it == reqs[r].items[loc[r].idx]
           prod == lookup_product(ProductsTab, it.product_id, it.short_id)
       IN /\ Logged(r, Call("read", "Products", loc[r].idx, TRUE))
          /\ loc' = [loc EXCEPT ![r].prod = prod]
          /\ IF prod = EmptyDict
             THEN Finish(r, ErrResp(404, NotFoundDetail(r)))
             ELSE IF reqs[r].kind = "checkout" /\ ~IsInt(it.qty)
             THEN Finish(r, ErrResp(500, "ValueError"))
             ELSE Goto(r, "price")
    /\ UNCHANGED <<stock, sales, reqs, events, ha_token, fin, fout>>

\* rp = lookup_reseller_price(...); price, commission_pct, total
\* (lines 141-146, 180-186).  An exception that leaves the resolver or the
\* price arithmetic ends the request with a server error.
LookupPrice(r) ==
    /\ pc[r] = "price"
    /\ r \in running
    /\ LET it == reqs[r].items[loc[r].idx]
           prod == loc[r].prod
           res == lookup_reseller_price(PricingTab, reqs[r].reseller_id,
                                        Get(prod, "product_id"), Today)
           rp == res.value
       IN /\ Logged(r, Call("read", "ResellerPricing", loc[r].idx, TRUE))
          /\ IF res.raised \/ PriceRaises(rp, prod)
             THEN /\ Finish(r, ErrResp(500, "ValueError"))
                  /\ UNCHANGED loc
             ELSE /\ loc' = [loc EXCEPT ![r].price = PriceOf(rp, prod),
                                        ![r].commission_pct = CommissionOf(rp),
                                        ![r].total = PriceOf(rp, prod) * int(it.qty),
                                        ![r].grand_total = @ + PriceOf(rp, prod) * int(it.qty)]
                  /\ Goto(r, "append")
    /\ UNCHANGED <<stock, sales, reqs, events, ha_token, fin, fout>>

\* Variant: the row carries the keys as the caller sent them.
SaleRow_sent_keys(r) ==
    [user_id |-> reqs[r].user_id, person_entity_id |-> loc[r].person_entity_id,
     customer_id |-> reqs[r].customer_id,
     product_id |-> reqs[r].items[loc[r].idx].product_id,
     short_id |-> reqs[r].items[loc[r].idx].short_id,
     qty |-> int(reqs[r].items[loc[r].idx].qty), price |-> loc[r].price,
     commission_pct |-> loc[r].commission_pct, total |-> loc[r].total,
     payment_method |-> reqs[r].payment_method]

\* The row appended to Sales (lines 147, 187), without its timestamp.
SaleRow(r) ==
    [user_id |-> reqs[r].user_id, person_entity_id |-> loc[r].person_entity_id,
     customer_id |-> reqs[r].customer_id,
     product_id |-> Get(loc[r].prod, "product_id"),
     short_id |-> Get(loc[r].prod, "short_id"),
     qty |-> int(reqs[r].items[loc[r].idx].qty), price |-> loc[r].price,
     commission_pct |-> loc[r].commission_pct, total |-> loc[r].total,
     payment_method |-> reqs[r].payment_method]

\* Variant: the append is issued twice.
AppendSale_twice(r) ==
    /\ pc[r] = "append"
    /\ r \in running
    /\ sales' = Append(Append(sales, SaleRow(r)), SaleRow(r))
    /\ loc' = [loc EXCEPT ![r].written = @ + 1]
    /\ Logged(r, Call("append", "Sales", loc[r].idx, TRUE))
    /\ Goto(r, "stock")
    /\ UNCHANGED <<stock, reqs, events, ha_token, fin, fout>>

\* values().append(... "Sales!A:Z" ...); written += 1 (lines 148, 188)
AppendSale(r) ==
    /\ pc[r] = "append"
    /\ r \in running
    /\ sales' = Append(sales, SaleRow(r))
    /\ loc' = [loc EXCEPT ![r].written = @ + 1]
    /\ Logged(r, Call("append", "Sales", loc[r].idx, TRUE))
    /\ Goto(r, "stock")
    /\ UNCHANGED <<stock, reqs, events, ha_token, fin, fout>>

\* Variant: the ValueError of a header that lacks a column is not caught.
ReadStock_uncaught(r) ==
    /\ pc[r] = "stock"
    /\ r \in running
    /\ LET plan == StockPlan(stock, reqs[r].reseller_id,
                             Get(loc[r].prod, "product_id"),
                             int(reqs[r].items[loc[r].idx].qty))
           lacks == stock # <<>> /\ \E h \in Range(StockHeader) : ~HasCol(stock[1], h)
       IN /\ Logged(r, Call("read", "Stock", loc[r].idx, TRUE))
          /\ IF lacks
             THEN /\ Finish(r, ErrResp(500, "ValueError"))
                  /\ UNCHANGED loc
             ELSE IF plan.update
             THEN /\ loc' = [loc EXCEPT ![r].plan = plan]
                  /\ Goto(r, "update")
             ELSE /\ loc' = [loc EXCEPT ![r].plan = plan, ![r].idx = NextIdx(r)]
                  /\ Goto(r, NextLabel(r))
    /\ UNCHANGED <<stock, sales, reqs, events, ha_token, fin, fout>>

\* stock_rows = read_tab(... "Stock") and the scan for the row to adjust
\* (lines 149-159, 189-199)
ReadStock(r) ==
    /\ pc[r] = "stock"
    /\ r \in running
    /\ LET plan == StockPlan(stock, reqs[r].reseller_id,
                             Get(loc[r].prod, "product_id"),
                             int(reqs[r].items[loc[r].idx].qty))
       IN /\ Logged(r, Call("read", "Stock", loc[r].idx, TRUE))
          /\ IF plan.update
             THEN /\ loc' = [loc EXCEPT ![r].plan = plan]
                  /\ Goto(r, "update")
             ELSE /\ loc' = [loc EXCEPT ![r].plan = plan, ![r].idx = NextIdx(r)]
                  /\ Goto(r, NextLabel(r))
    /\ UNCHANGED <<stock, sales, reqs, events, ha_token, fin, fout>>

\* update_row(s, sheet, "Stock", i, hdr, r_out); break (lines 160, 200)
UpdateStock(r) ==
    /\ pc[r] = "update"
    /\ r \in running
    /\ stock' = update_row(stock, loc[r].plan.row_idx, loc[r].plan.row_values)
    /\ Logged(r, Call("update", "Stock", loc[r].idx, TRUE))
    /\ loc' = [loc EXCEPT ![r].idx = NextIdx(r)]
    /\ Goto(r, NextLabel(r))
    /\ UNCHANGED <<sales, reqs, events, ha_token, fin, fout>>

\* Variant: a checkout returns the total of its last line.
OkResp_last_total(r) ==
    IF reqs[r].kind = "sale"
    THEN [NoResp EXCEPT !.code = 200, !.total = loc[r].total, !.price = loc[r].price,
                        !.commission_pct = loc[r].commission_pct]
    ELSE [NoResp EXCEPT !.code = 200, !.total = loc[r].total,
                        !.lines = loc[r].written]

\* The body returned on success (lines 163, 203).
OkResp(r) ==
    IF reqs[r].kind = "sale"
    THEN [NoResp EXCEPT !.code = 200, !.total = loc[r].total, !.price = loc[r].price,
                        !.commission_pct = loc[r].commission_pct]
    ELSE [NoResp EXCEPT !.code = 200, !.total = loc[r].grand_total,
                        !.lines = loc[r].written]

\* What becomes of a fire_event call (lines 85-91): nothing is posted
\* without a token; a post that raises is passed over.
Outcomes(token) == IF token THEN {"sent", "failed"} ELSE {"no_token"}

\* Variant: a post that raises is not passed over.
FireEvent_propagates(r) ==
    /\ pc[r] = "notify"
    /\ r \in running
    /\ \E o \in Outcomes(ha_token) :
          /\ events' = Append(events, [req |-> r, outcome |-> o,
                                       total |-> IF reqs[r].kind = "sale" THEN loc[r].total
                                                 ELSE loc[r].grand_total])
          /\ IF o = "failed" THEN Finish(r, ErrResp(500, "ConnectionError"))
             ELSE Finish(r, OkResp(r))
    /\ UNCHANGED <<stock, sales, reqs, loc, calls, ha_token, fin, fout>>

\* fire_event(...) and the return (lines 162-163, 202-203)
FireEvent(r) ==
    /\ pc[r] = "notify"
    /\ r \in running
    /\ \E o \in Outcomes(ha_token) :
          events' = Append(events, [req |-> r, outcome |-> o,
                                    total |-> IF reqs[r].kind = "sale" THEN loc[r].total
                                              ELSE loc[r].grand_total])
    /\ Finish(r, OkResp(r))
    /\ UNCHANGED <<stock, sales, reqs, loc, calls, ha_token, fin, fout>>

\* The store call the handler of r is about to make, if any.
PendingCall(r) ==
    CASE pc[r] = "user" /\ ~Falsy(reqs[r].user_id) -> Call("read", "Users", 0, FALSE)
      [] pc[r] = "product" -> Call("read", "Products", loc[r].idx, FALSE)
      [] pc[r] = "price" -> Call("read", "ResellerPricing", loc[r].idx, FALSE)
      [] pc[r] = "append" -> Call("append", "Sales", loc[r].idx, FALSE)
      [] pc[r] = "stock" -> Call("read", "Stock", loc[r].idx, FALSE)
      [] pc[r] = "update" -> Call("update", "Stock", loc[r].idx, FALSE)
      [] OTHER -> Call("none", "", 0, FALSE)

\* Variant: the stock block passes over any exception, not only ValueError.
StoreFail_swallowed(r) ==
    /\ r \in running
    /\ PendingCall(r).op # "none"
    /\ Logged(r, PendingCall(r))
    /\ IF pc[r] \in {"stock", "update"}
       THEN /\ loc' = [loc EXCEPT ![r].idx = NextIdx(r)]
            /\ Goto(r, NextLabel(r))
       ELSE /\ Finish(r, ErrResp(500, "HttpError"))
            /\ UNCHANGED loc
    /\ UNCHANGED <<stock, sales, reqs, events, ha_token, fin, fout>>

\* A store call raises (HttpError): no handler catches it, the request ends
\* with a server error.
StoreFail(r) ==
    /\ r \in running
    /\ PendingCall(r).op # "none"
    /\ Logged(r, PendingCall(r))
    /\ Finish(r, ErrResp(500, "HttpError"))
    /\ UNCHANGED <<stock, sales, reqs, loc, events, ha_token, fin, fout>>

Next ==
    \E r \in Reqs :
        \/ Begin(r)
        \/ LookupUser(r)
        \/ LookupProduct(r)
        \/ LookupPrice(r)
        \/ AppendSale(r)
        \/ ReadStock(r)
        \/ UpdateStock(r)
        \/ FireEvent(r)
        \/ StoreFail(r)

Spec == Init /\ [][Next]_vars

\* ================================================= functions under test
\* The handlers' state while a function is exercised on its own.
IdleMachine ==
    /\ stock = << StockHeader >>
    /\ sales = <<>>
    /\ reqs = [r \in Reqs |-> Body("checkout", Anonymous, TRUE, <<>>)]
    /\ pc = [r \in Reqs |-> "recv"]
    /\ loc = [r \in Reqs |-> NoLocals]
    /\ running = {}
    /\ resp = [r \in Reqs |-> NoResp]
    /\ calls = [r \in Reqs |-> <<>>]
    /\ events = <<>>
    /\ ha_token = FALSE

NotCalled == [called |-> FALSE]

\* A tab of the sheet: nothing at all, or the header and up to MaxRows rows.
Tabs(header, rows) ==
    {<<>>} \cup {<<header>> \o t : t \in SeqsUpTo({SheetRow(x) : x \in rows}, MaxRows)}

\* ---- lookup_reseller_price(ResellerPricing, "R1", "P1", on_date)
PricingRows ==
    { <<rid, "P1", vf, vt, "12", "5">> :
        rid \in {"R1", "R2"}, vf \in {"", "n/a", "2024-01-01", "2024-06-01"},
        vt \in {"", "2024-03-31", "2024-12-31"} }
OnDates == {20240215, 20240701}

InitResolve ==
    /\ IdleMachine
    /\ fin \in [tab : Tabs(PricingHeader, PricingRows), reseller_id : {"R1"},
                product_id : {"P1"}, on_date : OnDates]
    /\ fout = NotCalled

Resolve ==
    /\ ~fout.called
    /\ LET res == lookup_reseller_price(fin.tab, fin.reseller_id, fin.product_id, fin.on_date)
       IN fout' = [called |-> TRUE, raised |-> res.raised, value |-> res.value]
    /\ UNCHANGED <<fin, machine>>

NextResolve == Resolve
SpecResolve == InitResolve /\ [][NextResolve]_vars

\* ---- price, commission_pct and total of a line (lines 142-146, 182-186)
\* rp is the resolved ResellerPricing row ({} when none), prod the product.
ResolvedRows ==
    {EmptyDict} \cup
    { to_dicts(<<PricingHeader, SheetRow(<<"R1", "P1", "", "", price, pct>>)>>)[1] :
        price \in {"", "abc", "0", "12"}, pct \in {"", "x", "5"} }
ProductRows ==
    { to_dicts(<<ProductsTab[1], SheetRow(<<"P1", "S1", base>>)>>)[1] :
        base \in {"", "abc", "0", "10"} }
Qtys == {1, 3}

InitLine ==
    /\ IdleMachine
    /\ fin \in [rp : ResolvedRows, prod : ProductRows, qty : Qtys]
    /\ fout = NotCalled

PriceLine ==
    /\ ~fout.called
    /\ fout' = IF PriceRaises(fin.rp, fin.prod)
               THEN [called |-> TRUE, raised |-> TRUE, price |-> 0, commission_pct |-> 0,
                     total |-> 0]
               ELSE [called |-> TRUE, raised |-> FALSE, price |-> PriceOf(fin.rp, fin.prod),
                     commission_pct |-> CommissionOf(fin.rp),
                     total |-> PriceOf(fin.rp, fin.prod) * fin.qty]
    /\ UNCHANGED <<fin, machine>>

NextLine == PriceLine
SpecLine == InitLine /\ [][NextLine]_vars

\* ---- get_stock(reseller_id, user_id)
StockRows == { <<"P1", "R1", "10">>, <<"P1", "R2", "5">>, <<"P2", "U1", "1">> }
ListUsersTab ==
    << UsersTab[1], <<"U1", "person.anna", "R1">>, <<"R2", "person.bo", "R2">> >>

InitList ==
    /\ IdleMachine
    /\ fin \in [stock_tab : Tabs(StockHeader, StockRows), users_tab : {ListUsersTab},
                reseller_id : {None, "R1", "R2"}, user_id : {None, "U1", "R2", "U9"}]
    /\ fout = NotCalled

ListStock ==
    /\ ~fout.called
    /\ fout' = [called |-> TRUE,
                value |-> get_stock(fin.stock_tab, fin.users_tab, fin.reseller_id, fin.user_id)]
    /\ UNCHANGED <<fin, machine>>

NextList == ListStock
SpecList == InitList /\ [][NextList]_vars

\* ---- lookup_product(Products, product_id, short_id)
FindRows == { <<pid, sid, "1">> : pid \in {"P1", "P2"}, sid \in {"", "S1", "S2"} }

InitFind ==
    /\ IdleMachine
    /\ fin \in [tab : Tabs(ProductsTab[1], FindRows),
                product_id : {None, "", "P1", "PX"}, short_id : {None, "", "S2"}]
    /\ fout = NotCalled

Find ==
    /\ ~fout.called
    /\ fout' = [called |-> TRUE,
                value |-> lookup_product(fin.tab, fin.product_id, fin.short_id)]
    /\ UNCHANGED <<fin, machine>>

NextFind == Find
SpecFind == InitFind /\ [][NextFind]_vars

\* ---- the stock block of a handler (lines 149-161, 189-201) on its own
AdjustHeaders ==
    { <<"product_id", "reseller_id", "reseller_qty", "note">>,
      <<"note", "reseller_qty", "reseller_id", "product_id">>,
      <<"product_id", "reseller_id">> }
\* A Stock row under header h, as the sheet returns it.
RowUnder(h, pid, rid, qty, note) ==
    SheetRow([c \in 1..Len(h) |->
                CASE h[c] = "product_id" -> pid
                  [] h[c] = "reseller_id" -> rid
                  [] h[c] = "reseller_qty" -> qty
                  [] OTHER -> note])
AdjustRows(h) ==
    { RowUnder(h, pid, "R1", qty, note) :
        pid \in {"P1", "P2"}, qty \in {"", "10", "n/a"}, note \in {"", "keep"} }

InitAdjust ==
    /\ IdleMachine
    /\ \E h \in AdjustHeaders :
          fin \in [tab : Tabs(h, AdjustRows(h)), reseller_id : {"", "R1"},
                   product_id : {"P1"}, qty : {4}]
    /\ fout = NotCalled

Adjust ==
    /\ ~fout.called
    /\ LET plan == StockPlan(fin.tab, fin.reseller_id, fin.product_id, fin.qty)
       IN fout' = [called |-> TRUE, updated |-> plan.update, row_idx |-> plan.row_idx,
                   tab |-> IF plan.update
                           THEN update_row(fin.tab, plan.row_idx, plan.row_values)
                           ELSE fin.tab]
    /\ UNCHANGED <<fin, machine>>

NextAdjust == Adjust
SpecAdjust == InitAdjust /\ [][NextAdjust]_vars

\* ================================== a sale and the checkout of its one item
\* Request 1 is the sale of an item, request 2 the checkout of that item
\* alone by the same user and reseller.  The sale runs first; its response
\* and the store it leaves are kept in fout, the store is put back to the
\* contents it started from (kept in fin), and the checkout runs.  No store
\* call fails in either run.
EquivItems == {it \in SaleItems : ~(Falsy(it.product_id) /\ Falsy(it.short_id))}

InitEquiv ==
    /\ stock \in StockTabs
    /\ sales = <<>>
    /\ \E it \in EquivItems, w \in SalePrincipals :
          reqs = [r \in Reqs |-> IF r = 1 THEN Body("sale", w, TRUE, <<it>>)
                                 ELSE Body("checkout", w, TRUE, <<it>>)]
    /\ pc = [r \in Reqs |-> "recv"]
    /\ loc = [r \in Reqs |-> NoLocals]
    /\ running = {}
    /\ resp = [r \in Reqs |-> NoResp]
    /\ calls = [r \in Reqs |-> <<>>]
    /\ events = <<>>
    /\ ha_token \in BOOLEAN
    /\ fin = [stock |-> stock]
    /\ fout = NotCalled

HandlerStep(r) ==
    \/ Begin(r)
    \/ LookupUser(r)
    \/ LookupProduct(r)
    \/ LookupPrice(r)
    \/ AppendSale(r)
    \/ ReadStock(r)
    \/ UpdateStock(r)
    \/ FireEvent(r)

RunSale == ~fout.called /\ HandlerStep(1)

Rewind ==
    /\ ~fout.called
    /\ pc[1] = "done"
    /\ fout' = [called |-> TRUE, resp |-> resp[1], sales |-> sales, stock |-> stock]
    /\ stock' = fin.stock
    /\ sales' = <<>>
    /\ UNCHANGED <<reqs, pc, loc, running, resp, calls, events, ha_token, fin>>

RunCheckout == fout.called /\ HandlerStep(2)

NextEquiv == RunSale \/ Rewind \/ RunCheckout
SpecEquiv == InitEquiv /\ [][NextEquiv]_vars

\* ============================================================ properties
\* Number of successful store calls op on tab that r made for item j.
Count(r, op, tab, j) ==
    Cardinality({i \in 1..Len(calls[r]) : calls[r][i] = Call(op, tab, j, TRUE)})
\* Number of rows r has appended to Sales.
Appended(r) ==
    Cardinality({i \in 1..Len(calls[r]) :
                    calls[r][i].op = "append" /\ calls[r][i].tab = "Sales" /\ calls[r][i].ok})
RECURSIVE SumAppended(_)
SumAppended(S) ==
    IF S = {} THEN 0
    ELSE LET r == CHOOSE x \in S : TRUE IN Appended(r) + SumAppended(S \ {r})
\* The store call of r that failed, if one did.
Failed(r) == calls[r] # <<>> /\ ~calls[r][Len(calls[r])].ok
LastCall(r) == calls[r][Len(calls[r])]
EventsOf(r) == {i \in 1..Len(events) : events[i].req = r}

\* Two sales of P1 for reseller R1, 4 and 5 pieces, on a Stock row holding 10.
RaceScenario ==
    /\ reqs[1] = Body("sale", AnnaR1, TRUE, <<Item("P1", None, 4)>>)
    /\ reqs[2] = Body("sale", AnnaR1, TRUE, <<Item("P1", None, 5)>>)
    /\ stock[1] = StockHeader

\* C1 (as amended): two concurrent sales that decrement the Stock row of
\* (P1, R1) from 10 by 4 and by 5 always finish with the row at 1; no update
\* is lost, because a handler runs from its body to its response without
\* giving up the event loop.
C1_SerialisedDecrements ==
    (RaceScenario /\ resp[1].code = 200 /\ resp[2].code = 200)
        => stock[2] = <<"P1", "R1", "1">>
C1_Witness ==
    /\ RaceScenario /\ resp[1].code = 200 /\ resp[2].code = 200
    /\ stock[2] = <<"P1", "R1", "1">>
    /\ Len(sales) = 2
\* C1 as stated: the two read-modify-write sequences interleave, which is
\* what the final values 6 and 5 need: while one call holds the Stock row it
\* has read and not yet written back, the other call can run.
C1_Original_SequencesInterleave ==
    \A r \in Reqs : \A q \in Reqs \ {r} :
        (RaceScenario /\ pc[r] = "update" /\ pc[q] = "recv") => ENABLED Begin(q)

\* First item of r's list that no Products row matches, 0 when all resolve.
Unresolved(r, j) ==
    lookup_product(ProductsTab, reqs[r].items[j].product_id, reqs[r].items[j].short_id)
        = EmptyDict
FirstUnresolved(r) ==
    IF \E j \in 1..Len(reqs[r].items) : Unresolved(r, j)
    THEN CHOOSE j \in 1..Len(reqs[r].items) :
            Unresolved(r, j) /\ \A i \in 1..(j-1) : ~Unresolved(r, i)
    ELSE 0
\* The Stock tab has a row for the pair item j of r sells (pid is the
\* product_id of the Products row the item resolves to).
ResolvedPid(r, j) ==
    Get(lookup_product(ProductsTab, reqs[r].items[j].product_id,
                       reqs[r].items[j].short_id), "product_id")
HasStockRow(r, j) ==
    /\ ~Falsy(reqs[r].reseller_id)
    /\ Range(StockHeader) \subseteq Range(stock[1])
    /\ \E i \in 2..Len(stock) :
          /\ Len(stock[i]) >= 2
          /\ stock[i][1] = ResolvedPid(r, j)
          /\ stock[i][2] = reqs[r].reseller_id

\* C2: a checkout whose k-th item does not resolve ends with 404 (unless a
\* server error ended it earlier); each of the k-1 earlier items has exactly
\* one Sale row appended and its stock adjustment made, the k-th and later
\* items have no Sale row and no stock call, and the step that answers 404
\* leaves Sales and Stock as the earlier items wrote them.
C2_LinesWritten ==
    \A r \in Reqs :
        (reqs[r].kind = "checkout" /\ pc[r] = "done" /\ resp[r].code \notin {400, 500}
           /\ FirstUnresolved(r) # 0)
        => LET k == FirstUnresolved(r)
           IN /\ resp[r].code = 404
              /\ \A j \in 1..Len(reqs[r].items) :
                    IF j < k
                    THEN /\ Count(r, "append", "Sales", j) = 1
                         /\ Count(r, "read", "Stock", j) = 1
                         /\ Count(r, "update", "Stock", j) = (IF HasStockRow(r, j) THEN 1 ELSE 0)
                    ELSE /\ Count(r, "append", "Sales", j) = 0
                         /\ Count(r, "read", "Stock", j) = 0
                         /\ Count(r, "update", "Stock", j) = 0
              /\ Len(sales) = SumAppended(Reqs)
              /\ EventsOf(r) = {}
C2_NotFoundStep ==
    \A r \in Reqs :
        (resp[r].code = 0 /\ resp'[r].code = 404) => (stock' = stock /\ sales' = sales)
C2_PartialCheckout == [](C2_LinesWritten) /\ [][C2_NotFoundStep]_vars
C2_Witness ==
    /\ reqs[1] = Body("checkout", AnnaR1, TRUE, <<Item("P1", None, 4), Item("PX", None, 1)>>)
    /\ resp[1].code = 404
    /\ pc[2] = "recv"
    /\ Count(1, "append", "Sales", 1) = 1
    /\ Count(1, "update", "Stock", 1) = 1
    /\ Len(sales) = 1
    /\ sales[1].product_id = "P1" /\ sales[1].qty = 4
    /\ stock[2] = <<"P1", "R1", "6">>

\* C3: Sales is append-only: every step keeps the existing rows in place and
\* adds at most one; a request answered 200 has added exactly one row per
\* item, and Sales holds exactly the rows the requests appended.
C3_SalesPrefix ==
    /\ Len(sales') >= Len(sales)
    /\ Len(sales') <= Len(sales) + 1
    /\ SubSeq(sales', 1, Len(sales)) = sales
C3_OneRowPerItem ==
    /\ Len(sales) = SumAppended(Reqs)
    /\ \A r \in Reqs :
          resp[r].code = 200 =>
              /\ Appended(r) = Len(reqs[r].items)
              /\ \A j \in 1..Len(reqs[r].items) : Count(r, "append", "Sales", j) = 1
C3_AppendOnly == [](C3_OneRowPerItem) /\ [][C3_SalesPrefix]_vars
C3_Witness ==
    /\ resp[1].code = 200 /\ resp[2].code = 200
    /\ reqs[1].kind = "checkout" /\ Len(reqs[1].items) = 2
    /\ Len(sales) = 3

\* C8: a store call that fails ends the request with 500 at that call: it is
\* the request's last store call and its only failed one, no event is fired
\* for the request, the step changes neither Sales nor Stock, and when it is
\* the Stock read or update of an item, that item's Sale row is recorded and
\* its Stock update is not.
C8_FailState ==
    \A r \in Reqs :
        /\ \A i \in 1..(Len(calls[r]) - 1) : calls[r][i].ok
        /\ Failed(r) =>
              /\ pc[r] = "done"
              /\ resp[r].code = 500
              /\ EventsOf(r) = {}
              /\ Len(sales) = SumAppended(Reqs)
              /\ LastCall(r).tab = "Stock" =>
                    /\ Count(r, "append", "Sales", LastCall(r).item) = 1
                    /\ Count(r, "update", "Stock", LastCall(r).item) = 0
C8_FailStep ==
    \A r \in Reqs :
        (Len(calls'[r]) > Len(calls[r]) /\ ~calls'[r][Len(calls'[r])].ok)
            => (stock' = stock /\ sales' = sales /\ events' = events)
C8_StoreFailureAborts == [](C8_FailState) /\ [][C8_FailStep]_vars
C8_Witness ==
    /\ Failed(1)
    /\ LastCall(1) = Call("update", "Stock", 1, FALSE)
    /\ reqs[1].kind = "sale"
    /\ pc[2] = "recv"
    /\ Len(sales) = 1
    /\ stock[2] = <<"P1", "R1", "10">>

\* C9: the event is fired only after every item's Sale row is appended and
\* its stock block is over; the fire_event step changes neither Sales nor
\* Stock and the request is answered 200 with the same body whether the
\* event was sent, failed, or was not attempted for want of a token.
C9_EventLast ==
    \A i \in 1..Len(events) :
        LET r == events[i].req
        IN /\ pc[r] = "done"
           /\ resp[r] = OkResp(r)
           /\ Cardinality(EventsOf(r)) = 1
           /\ \A j \in 1..Len(reqs[r].items) :
                 /\ Count(r, "append", "Sales", j) = 1
                 /\ Count(r, "read", "Stock", j) = 1
C9_EventStep ==
    Len(events') > Len(events) => (stock' = stock /\ sales' = sales)
C9_NotificationNeverFails == [](C9_EventLast) /\ [][C9_EventStep]_vars
C9_Witness ==
    \E i \in 1..Len(events) :
        /\ events[i].outcome = "failed"
        /\ resp[events[i].req].code = 200
        /\ reqs[events[i].req].kind = "checkout"

\* ------------------------------------------------ price resolver claims
\* A cell that holds a number / a cell that float() rejects.
NumericCell(x) == ~Falsy(x) /\ IsNumeric(x)
BadCell(x) == ~Falsy(x) /\ ~IsNumeric(x)

\* The window of a ResellerPricing row as the specification defines it: an
\* empty or unparseable bound is the earliest / the latest date.
WindowFrom(d) == IF IsIsoDate(d.valid_from) THEN IsoDate[d.valid_from] ELSE DATE_MIN
WindowTo(d) == IF IsIsoDate(d.valid_to) THEN IsoDate[d.valid_to] ELSE DATE_MAX
\* Rows of the tab under test that match the key and whose window contains
\* the date.
Candidates ==
    LET ds == to_dicts(fin.tab)
    IN {i \in 1..Len(ds) :
           /\ ds[i].reseller_id = fin.reseller_id
           /\ ds[i].product_id = fin.product_id
           /\ WindowFrom(ds[i]) <= fin.on_date
           /\ fin.on_date <= WindowTo(ds[i])}

\* C4: resolvePrice returns a row matching reseller and product whose window
\* contains the date and whose valid_from is the latest among such rows, and
\* returns empty exactly when there is no such row.
C4_ResolveLatest ==
    fout.called =>
        LET ds == to_dicts(fin.tab)
        IN /\ ~fout.raised
           /\ IF Candidates = {} THEN fout.value = EmptyDict
              ELSE \E i \in Candidates :
                      /\ fout.value = ds[i]
                      /\ \A j \in Candidates : WindowFrom(ds[j]) <= WindowFrom(ds[i])

\* C5: resolvePrice never fails on date fields: it returns a result for
\* every list of rows, and a row whose bounds are empty or unparseable
\* counts as a candidate under the default bounds.
C5_DatesNeverRaise ==
    fout.called =>
        /\ ~fout.raised
        /\ Candidates # {} => fout.value # EmptyDict

\* ------------------------------------------------------ price line claims
\* C6: the price and the commission of a line are computed without raising
\* for every mix of empty, numeric and non-numeric price, commission_pct and
\* base_price, a value that cannot be parsed counting as 0.
C6_PriceParsingNeverRaises ==
    fout.called =>
        /\ ~fout.raised
        /\ BadCell(Get(fin.rp, "commission_pct")) => fout.commission_pct = 0
        /\ (~NumericCell(Get(fin.rp, "price")) /\ BadCell(Get(fin.prod, "base_price")))
              => fout.price = 0

\* C7 as stated, on the products whose base_price is a number: with no
\* resolved row, or a row whose price or commission_pct is empty or
\* non-numeric, the line gets base_price and commission 0; with a numeric
\* price and a numeric commission_pct it gets exactly those.
C7_Original_EitherFieldFallsBack ==
    (fout.called /\ NumericCell(Get(fin.prod, "base_price"))) =>
        LET p == Get(fin.rp, "price")
            c == Get(fin.rp, "commission_pct")
        IN /\ ~fout.raised
           /\ IF NumericCell(p) /\ NumericCell(c)
              THEN fout.price = ParseFloat(p) /\ fout.commission_pct = ParseFloat(c)
              ELSE /\ fout.price = ParseFloat(Get(fin.prod, "base_price"))
                   /\ fout.commission_pct = 0

\* C7 (as amended): the two fields fall back each on its own.  The price is
\* the row's price when that is numeric, whatever commission_pct holds;
\* otherwise it is base_price (0 when base_price is empty), and the line
\* raises when that base_price is non-numeric.  The commission is the row's
\* commission_pct when that is numeric, whatever price holds, otherwise 0.
C7_FieldwiseFallback ==
    fout.called =>
        LET p == Get(fin.rp, "price")
            c == Get(fin.rp, "commission_pct")
            b == Get(fin.prod, "base_price")
        IN /\ fout.raised <=> (~NumericCell(p) /\ BadCell(b))
           /\ ~fout.raised =>
                 /\ fout.price = (IF NumericCell(p) THEN ParseFloat(p)
                                  ELSE IF Falsy(b) THEN 0 ELSE ParseFloat(b))
                 /\ fout.commission_pct = (IF NumericCell(c) THEN ParseFloat(c) ELSE 0)
C7_Witness ==
    /\ fout.called /\ ~fout.raised
    /\ Get(fin.rp, "price") = "12" /\ Get(fin.rp, "commission_pct") = "x"
    /\ Get(fin.prod, "base_price") = "10"
    /\ fout.price = 12 /\ fout.commission_pct = 0

\* ----------------------------------------------------- stock listing claim
\* C10: with a user_id the listing is exactly the Stock rows of the reseller
\* associated with that user (the reseller_id of the user's Users row), the
\* reseller_id argument being ignored; with only a reseller_id it is exactly
\* that reseller's rows; with neither it is every row.
C10_ListStockByUser ==
    fout.called =>
        LET items == to_dicts(fin.stock_tab)
            us == to_dicts(fin.users_tab)
            Of(rid) == SelectSeq(items, LAMBDA x : x.reseller_id = rid)
        IN IF ~Falsy(fin.user_id)
           THEN \A i \in 1..Len(us) :
                   us[i].user_id = fin.user_id => fout.value = Of(us[i].reseller_id)
           ELSE IF ~Falsy(fin.reseller_id) THEN fout.value = Of(fin.reseller_id)
                ELSE fout.value = items

\* ------------------------------------------------------- validation claims
\* The body of r fails validation: a sale without product_id and short_id,
\* a checkout whose items are not a list or are empty.
Invalid(r) ==
    IF reqs[r].kind = "sale"
    THEN Falsy(reqs[r].items[1].product_id) /\ Falsy(reqs[r].items[1].short_id)
    ELSE ~reqs[r].items_is_list \/ reqs[r].items = <<>>
\* The body of r gets as far as the validation: pos_sale converts qty first.
Validated(r) == reqs[r].kind = "sale" => IsInt(reqs[r].items[1].qty)

\* C11: a request that fails validation is answered 400 and makes no store
\* call and publishes no event, at any time; only such requests are answered
\* 400; and the step that answers it changes neither Stock nor Sales nor the
\* calls and events made so far.
C11_NoAccess ==
    \A r \in Reqs :
        /\ Invalid(r) => (calls[r] = <<>> /\ EventsOf(r) = {} /\ r \notin running)
        /\ (Invalid(r) /\ pc[r] = "done") => resp[r].code = 400
        /\ resp[r].code = 400 => (Invalid(r) /\ calls[r] = <<>> /\ EventsOf(r) = {})
C11_RejectStep ==
    \A r \in Reqs :
        (Invalid(r) /\ pc'[r] # pc[r])
            => (stock' = stock /\ sales' = sales /\ events' = events /\ calls' = calls)
C11_InvalidRequestTouchesNothing == [](C11_NoAccess) /\ [][C11_RejectStep]_vars
\* What does hold: no request that fails validation ever makes a store call
\* or has an event, and it is answered 400 when its qty converts.
C11_NoAccessWhenQtyConverts ==
    \A r \in Reqs :
        /\ Invalid(r) => (calls[r] = <<>> /\ EventsOf(r) = {} /\ r \notin running)
        /\ (Invalid(r) /\ Validated(r) /\ pc[r] = "done") => resp[r].code = 400
        /\ resp[r].code = 400 => (Invalid(r) /\ calls[r] = <<>> /\ EventsOf(r) = {})

\* No Products row carries the product_id or the short_id the sale r sends.
NoProductRow(r) ==
    LET it == reqs[r].items[1]
    IN \A i \in 2..Len(ProductsTab) :
          /\ Falsy(it.product_id) \/ ProductsTab[i][1] # it.product_id
          /\ Falsy(it.short_id) \/ ProductsTab[i][2] # it.short_id
\* The user_id of r is empty or is not the user_id of any Users row.
UnknownUser(r) == \A i \in 2..Len(UsersTab) : UsersTab[i][1] # reqs[r].user_id

\* C12: a sale whose keys match no Products row is answered 404 (unless a
\* store call fails first), and a sale answered 404 is such a sale, has
\* appended nothing, made no Stock call and published no event, the answering
\* step leaving Stock, Sales and events as they were; a missing or unknown
\* user never ends a sale: the sale is answered 200 unless its body, its
\* product, its price or a store call stops it, and the row it appends has an
\* empty person_entity_id.
C12_Refused(r) ==
    /\ resp[r].code = 404 =>
          /\ NoProductRow(r)
          /\ Appended(r) = 0
          /\ \A i \in 1..Len(calls[r]) : calls[r][i].tab # "Stock"
          /\ EventsOf(r) = {}
    /\ (UnknownUser(r) /\ pc[r] = "done" /\ resp[r].code # 200)
          => \/ Invalid(r) \/ ~Validated(r) \/ NoProductRow(r) \/ Failed(r)
             \/ ~IsNumeric(ProductsTab[4][3]) /\ ResolvedPid(r, 1) = ProductsTab[4][1]
C12_NotFound ==
    \A r \in Reqs :
        reqs[r].kind = "sale" =>
            /\ (NoProductRow(r) /\ ~Invalid(r) /\ pc[r] = "done" /\ ~Failed(r))
                  => resp[r].code = 404
            /\ C12_Refused(r)
C12_UnknownUserRows ==
    \A i \in 1..Len(sales) :
        (\A k \in 2..Len(UsersTab) : UsersTab[k][1] # sales[i].user_id)
            => sales[i].person_entity_id = ""
C12_Step ==
    \A r \in Reqs :
        (resp[r].code = 0 /\ resp'[r].code = 404)
            => (stock' = stock /\ sales' = sales /\ events' = events)
C12_State == C12_NotFound /\ C12_UnknownUserRows
C12_UnknownProductRefused == [](C12_State) /\ [][C12_Step]_vars
\* What does hold: the same, the 404 being stated for a sale whose qty
\* converts.
C12_NotFoundWhenQtyConverts ==
    /\ C12_UnknownUserRows
    /\ \A r \in Reqs :
          reqs[r].kind = "sale" =>
              /\ (NoProductRow(r) /\ ~Invalid(r) /\ Validated(r) /\ pc[r] = "done"
                    /\ ~Failed(r)) => resp[r].code = 404
              /\ C12_Refused(r)

\* ------------------------------------------------------ product lookup claim
\* Data row i of the Products tab given to lookup_product matches a key.
KeyMatch(i) ==
    LET row == fin.tab[i + 1]
    IN \/ ~Falsy(fin.product_id) /\ CellOr(row, 1) = fin.product_id
       \/ ~Falsy(fin.short_id) /\ CellOr(row, 2) = fin.short_id

\* C13: lookup_product returns the first Products row, in scan order, whose
\* product_id equals the product_id asked for or whose short_id equals the
\* short_id asked for, whichever key that row matched; it returns the empty
\* record exactly when no row matches either key.
C13_FirstRowEitherKey ==
    fout.called =>
        LET n == IF fin.tab = <<>> THEN 0 ELSE Len(fin.tab) - 1
        IN IF \E i \in 1..n : KeyMatch(i)
           THEN LET k == CHOOSE i \in 1..n : KeyMatch(i) /\ \A j \in 1..(i-1) : ~KeyMatch(j)
                IN /\ fout.value # EmptyDict
                   /\ fout.value.product_id = CellOr(fin.tab[k + 1], 1)
                   /\ fout.value.short_id = CellOr(fin.tab[k + 1], 2)
                   /\ fout.value.base_price = CellOr(fin.tab[k + 1], 3)
           ELSE fout.value = EmptyDict
\* product_id P1 is on the second row, short_id S2 on the first: the first
\* row is returned, matched by its short_id.
C13_Witness ==
    /\ fout.called
    /\ fin.tab = << ProductsTab[1], <<"P2", "S2", "1">>, <<"P1", "S1", "1">> >>
    /\ fin.product_id = "P1" /\ fin.short_id = "S2"
    /\ fout.value.product_id = "P2"

\* ------------------------------------------------------------- sale claims
\* The Products row item j of r resolves to: the first one carrying the
\* product_id or the short_id sent (0 when there is none).
ProductRowOf(r, j) ==
    LET it == reqs[r].items[j]
        Hit(i) == \/ ~Falsy(it.product_id) /\ ProductsTab[i][1] = it.product_id
                  \/ ~Falsy(it.short_id) /\ ProductsTab[i][2] = it.short_id
    IN IF \E i \in 2..Len(ProductsTab) : Hit(i)
       THEN CHOOSE i \in 2..Len(ProductsTab) : Hit(i) /\ \A k \in 2..(i-1) : ~Hit(k)
       ELSE 0
\* person_entity_id of the Users row of r's user, "" when there is none.
PersonOf(r) ==
    IF UnknownUser(r) THEN ""
    ELSE UsersTab[CHOOSE i \in 2..Len(UsersTab) : UsersTab[i][1] = reqs[r].user_id][2]
\* The Sale row the claim describes for item j of r, sold at price p with
\* commission c.
ExpectedRow(r, j, p, c) ==
    [user_id |-> reqs[r].user_id, person_entity_id |-> PersonOf(r),
     customer_id |-> reqs[r].customer_id,
     product_id |-> ProductsTab[ProductRowOf(r, j)][1],
     short_id |-> ProductsTab[ProductRowOf(r, j)][2],
     qty |-> int(reqs[r].items[j].qty), price |-> p, commission_pct |-> c,
     total |-> p * int(reqs[r].items[j].qty),
     payment_method |-> reqs[r].payment_method]

\* C14: a sale answered 200 with price p and commission c for quantity q
\* returns total = p * q and has appended exactly one row; that row is in
\* Sales once and carries q, p, c, p * q and the product_id and short_id of
\* the Products row the sale resolved to; Sales holds nothing but the rows
\* the requests appended.
C14_SaleRowAndTotal ==
    /\ Len(sales) = SumAppended(Reqs)
    /\ \A r \in Reqs :
          (reqs[r].kind = "sale" /\ resp[r].code = 200) =>
              LET q == int(reqs[r].items[1].qty)
                  row == ExpectedRow(r, 1, resp[r].price, resp[r].commission_pct)
              IN /\ resp[r].total = resp[r].price * q
                 /\ Appended(r) = 1
                 /\ Cardinality({i \in 1..Len(sales) : sales[i] = row}) = 1
\* P2 is sold by its short_id alone: 3 pieces at its base price 7.
C14_Witness ==
    /\ reqs[1] = Body("sale", AnnaR1, TRUE, <<Item(None, "S2", 3)>>)
    /\ resp[1].code = 200 /\ pc[2] = "recv"
    /\ resp[1].price = 7 /\ resp[1].commission_pct = 0 /\ resp[1].total = 21
    /\ Len(sales) = 1
    /\ sales[1].product_id = "P2" /\ sales[1].short_id = "S2"
    /\ sales[1].qty = 3 /\ sales[1].price = 7 /\ sales[1].total = 21

\* --------------------------------------------------------- checkout claims
\* The rows of Sales that r appended, oldest first.  The two requests never
\* sell the same quantity, which tells their rows apart.
RowsOf(r) ==
    SelectSeq(sales, LAMBDA row :
        \E j \in 1..Len(reqs[r].items) :
            IsInt(reqs[r].items[j].qty) /\ int(reqs[r].items[j].qty) = row.qty)
RECURSIVE SumTotals(_)
SumTotals(rows) ==
    IF rows = <<>> THEN 0
    ELSE rows[1].price * rows[1].qty + SumTotals(Tail(rows))
AllResolve(r) == \A j \in 1..Len(reqs[r].items) : ProductRowOf(r, j) # 0

\* C15: at every point of a checkout its lines_written equals the number of
\* Sale rows it has appended so far, and Sales holds only appended rows; a
\* checkout answered 200 returns lines = number of items and total = the sum
\* of price * qty over its rows, and its rows are one per item in item order,
\* each with the item's resolved product and qty; a checkout whose items all
\* resolve is answered 200 unless a store call fails or a price or qty
\* cannot be converted.
C15_LinesAndTotal ==
    /\ Len(sales) = SumAppended(Reqs)
    /\ \A r \in Reqs :
          reqs[r].kind = "checkout" =>
              /\ loc[r].written = Appended(r)
              /\ Len(RowsOf(r)) = Appended(r)
              /\ resp[r].code = 200 =>
                    /\ AllResolve(r)
                    /\ resp[r].lines = Len(reqs[r].items)
                    /\ Appended(r) = resp[r].lines
                    /\ \A j \in 1..Len(reqs[r].items) :
                          RowsOf(r)[j] = ExpectedRow(r, j, RowsOf(r)[j].price,
                                                     RowsOf(r)[j].commission_pct)
                    /\ resp[r].total = SumTotals(RowsOf(r))
              /\ (AllResolve(r) /\ ~Invalid(r) /\ pc[r] = "done" /\ resp[r].code # 200)
                    => \/ Failed(r)
                       \/ \E j \in 1..Len(reqs[r].items) :
                             \/ ~IsNumeric(ProductsTab[ProductRowOf(r, j)][3])
                             \/ ~IsInt(reqs[r].items[j].qty)
\* 4 of P1 at 11 and 3 of P2 at 7, after the other request sold 5 of P1.
C15_Witness ==
    /\ reqs[1] = Body("checkout", AnnaR1, TRUE, <<Item("P1", None, 4), Item(None, "S2", 3)>>)
    /\ resp[1].code = 200 /\ resp[2].code = 200
    /\ resp[1].lines = 2 /\ resp[1].total = 65
    /\ Len(sales) = 3
    /\ sales[1].qty = 5
    /\ sales[2].product_id = "P1" /\ sales[2].total = 44
    /\ sales[3].product_id = "P2" /\ sales[3].total = 21

\* ------------------------------------------------------------ stock claims
\* Column of the Stock tab t headed h (0 when there is none).
Col(t, h) ==
    IF \E c \in 1..Len(t[1]) : t[1][c] = h
    THEN CHOOSE c \in 1..Len(t[1]) : t[1][c] = h /\ \A d \in 1..(c-1) : t[1][d] # h
    ELSE 0
\* Sheet row of t holding the pair: the first one in scan order, 0 if none.
PairRow(t, pid, rid) ==
    LET Hit(i) == /\ CellOr(t[i], Col(t, "product_id")) = pid
                  /\ CellOr(t[i], Col(t, "reseller_id")) = rid
    IN IF \E i \in 2..Len(t) : Hit(i)
       THEN CHOOSE i \in 2..Len(t) : Hit(i) /\ \A k \in 2..(i-1) : ~Hit(k)
       ELSE 0
\* The quantity a row holds, an empty cell counting as 0.
QtyOf(t, i) ==
    LET c == CellOr(t[i], Col(t, "reseller_qty")) IN IF c = "" THEN 0 ELSE ParseFloat(c)
\* r makes, in this step, the Stock update of its item j.
Adjusts(r, j) == calls'[r] = Append(calls[r], Call("update", "Stock", j, TRUE))
\* Item j of r sells product pid for reseller rid.
Sells(r, j, pid, rid) ==
    /\ reqs[r].reseller_id = rid
    /\ ProductRowOf(r, j) # 0
    /\ ProductsTab[ProductRowOf(r, j)][1] = pid
\* The Stock tab the run started from: the header row never changes.
StockAtStart == CHOOSE t \in StockTabs : t[1] = stock[1]
\* Total quantity of the adjustments the requests have made for the pair.
Lines == {<<r, j>> \in Reqs \X (1..MaxItems) : j <= Len(reqs[r].items)}
RECURSIVE SumQty(_)
SumQty(L) ==
    IF L = {} THEN 0
    ELSE LET x == CHOOSE y \in L : TRUE
         IN int(reqs[x[1]].items[x[2]].qty) + SumQty(L \ {x})
Adjusted(pid, rid) ==
    {x \in Lines : Sells(x[1], x[2], pid, rid) /\ Count(x[1], "update", "Stock", x[2]) = 1}

\* C16: every stock adjustment writes, into the first row of the pair, the
\* quantity that row holds in the store when the adjustment is made (an empty
\* cell being 0) minus the item's qty, below zero included; so at all times
\* the row of a pair holds its initial quantity minus the quantities of the
\* adjustments made for the pair, every line of a request answered 200 for a
\* pair that has a row has made its adjustment, and a request whose
\* adjustments are all made is answered 200.
C16_AdjustStep ==
    \A r \in Reqs : \A j \in 1..Len(reqs[r].items) :
        Adjusts(r, j) =>
            LET pid == ProductsTab[ProductRowOf(r, j)][1]
                i == PairRow(stock, pid, reqs[r].reseller_id)
            IN /\ i # 0
               /\ CellOr(stock'[i], Col(stock, "reseller_qty"))
                     = ToString(QtyOf(stock, i) - int(reqs[r].items[j].qty))
C16_Balance ==
    /\ \A pid \in {"P1", "P2"} : \A rid \in {"R1", "R2"} :
          LET i == PairRow(StockAtStart, pid, rid)
          IN (i # 0 /\ Col(stock, "reseller_qty") # 0) =>
                IF Adjusted(pid, rid) = {} THEN stock[i] = StockAtStart[i]
                ELSE CellOr(stock[i], Col(stock, "reseller_qty"))
                        = ToString(QtyOf(StockAtStart, i) - SumQty(Adjusted(pid, rid)))
    /\ \A x \in Lines :
          (resp[x[1]].code = 200 /\ Col(stock, "reseller_qty") # 0
             /\ PairRow(StockAtStart, ProductsTab[ProductRowOf(x[1], x[2])][1],
                         reqs[x[1]].reseller_id) # 0)
            => Count(x[1], "update", "Stock", x[2]) = 1
    /\ \A r \in Reqs :
          (pc[r] = "done" /\ Count(r, "update", "Stock", Len(reqs[r].items)) = 1)
            => resp[r].code = 200
C16_StockArithmetic == [](C16_Balance) /\ [][C16_AdjustStep]_vars
\* 4 and 4 of P1 in one checkout and 5 in a sale, on a row holding 10.
C16_Witness ==
    /\ reqs[1] = Body("checkout", AnnaR1, TRUE, <<Item("P1", None, 4), Item("P1", None, 4)>>)
    /\ resp[1].code = 200 /\ resp[2].code = 200
    /\ stock[2] = <<"P1", "R1", "-3">>
    /\ Len(sales) = 3

\* C17: a stock adjustment writes at the sheet position of the first row, in
\* scan order, whose product_id and reseller_id both match; the tab keeps its
\* length, every other row (later rows of the same pair included) keeps its
\* cells, and so does every cell of the written row but reseller_qty, which
\* becomes the old quantity minus qty; when nothing is written the tab is as
\* it was.
C17_OnlyQtyCellOfFirstRow ==
    fout.called =>
        IF fout.updated
        THEN LET t == fin.tab
                 i == PairRow(t, fin.product_id, fin.reseller_id)
                 q == Col(t, "reseller_qty")
             IN /\ i # 0 /\ q # 0
                /\ fout.row_idx = i
                /\ Len(fout.tab) = Len(t)
                /\ \A k \in 1..Len(t) : k # i => fout.tab[k] = t[k]
                /\ \A c \in 1..Len(t[1]) :
                      c # q => CellOr(fout.tab[i], c) = CellOr(t[i], c)
                /\ CellOr(fout.tab[i], q) = ToString(QtyOf(t, i) - fin.qty)
        ELSE fout.tab = fin.tab
\* Two rows for (P1, R1) under a header that puts the quantity second: the
\* first row goes from 10 to 6 and keeps its note, the second stays empty.
C17_Witness ==
    /\ fout.called /\ fout.updated
    /\ fin.tab = << <<"note", "reseller_qty", "reseller_id", "product_id">>,
                     <<"keep", "10", "R1", "P1">>, <<"", "", "R1", "P1">> >>
    /\ fout.row_idx = 2
    /\ fout.tab[2] = <<"keep", "6", "R1", "P1">>
    /\ fout.tab[3] = <<"", "", "R1", "P1">>

\* Item j of r is one whose stock adjustment the claim says is skipped: no
\* reseller_id was sent, or the Stock header lacks one of the three columns,
\* or no Stock row holds the pair.
SkipCase(r, j) ==
    \/ Falsy(reqs[r].reseller_id)
    \/ \E h \in {"product_id", "reseller_id", "reseller_qty"} : Col(stock, h) = 0
    \/ PairRow(stock, ProductsTab[ProductRowOf(r, j)][1], reqs[r].reseller_id) = 0
\* r takes a step.
Steps(r) == pc'[r] # pc[r] \/ calls'[r] # calls[r]

\* C18: for an item in one of the three skip cases no Stock update is ever
\* made or attempted; once its Stock read has returned, its Sale row is
\* appended, none of its store calls has failed, and when it is the last
\* item the request goes on to the event and is answered 200; no step a
\* request takes while it is on such an item changes the Stock tab.
C18_Skipped ==
    \A x \in Lines :
        LET r == x[1]
            j == x[2]
        IN (ProductRowOf(r, j) # 0 /\ SkipCase(r, j)) =>
              /\ \A i \in 1..Len(calls[r]) :
                    ~(calls[r][i].op = "update" /\ calls[r][i].item = j)
              /\ Count(r, "read", "Stock", j) = 1 =>
                    /\ Count(r, "append", "Sales", j) = 1
                    /\ \A i \in 1..Len(calls[r]) : calls[r][i].item = j => calls[r][i].ok
                    /\ (j = Len(reqs[r].items) /\ pc[r] = "done") => resp[r].code = 200
                    /\ (j = Len(reqs[r].items)) => pc[r] \in {"notify", "done"}
C18_SkipStep ==
    \A r \in Reqs :
        (Steps(r) /\ loc[r].idx >= 1 /\ ProductRowOf(r, loc[r].idx) # 0
           /\ SkipCase(r, loc[r].idx))
            => stock' = stock
C18_AdjustmentSkipped == [](C18_Skipped) /\ [][C18_SkipStep]_vars
\* U1 sells 4 of P1 for reseller R2, who has no Stock row.
C18_Witness ==
    /\ reqs[1] = Body("sale", [user_id |-> "U1", reseller_id |-> "R2"], TRUE,
                      <<Item("P1", None, 4)>>)
    /\ resp[1].code = 200 /\ pc[2] = "recv"
    /\ Count(1, "read", "Stock", 1) = 1 /\ Count(1, "update", "Stock", 1) = 0
    /\ Len(sales) = 1 /\ sales[1].qty = 4
    /\ stock = << StockHeader, <<"P1", "R1", "10">>, <<"P2", "R1">>, <<"P1", "R1", "3">> >>

\* ------------------------------------------------------------- event claim
\* C19: a checkout has at most one event; it has one only when every item
\* has its Sale row appended and its stock block over, and the checkout is
\* then answered 200; a checkout answered with an error has none, and none
\* is added for a request once it is answered; a step adds at most one event,
\* for a request that is answered in that step.
C19_AtMostOnceAtEnd ==
    \A r \in Reqs :
        reqs[r].kind = "checkout" =>
            /\ Cardinality(EventsOf(r)) <= 1
            /\ EventsOf(r) # {} =>
                  /\ pc[r] = "done" /\ resp[r].code = 200
                  /\ \A j \in 1..Len(reqs[r].items) :
                        /\ Count(r, "append", "Sales", j) = 1
                        /\ Count(r, "read", "Stock", j) = 1
            /\ (pc[r] = "done" /\ resp[r].code # 200) => EventsOf(r) = {}
C19_EventStep ==
    /\ Len(events') <= Len(events) + 1
    /\ SubSeq(events', 1, Len(events)) = events
    /\ \A r \in Reqs :
          /\ pc[r] = "done" => \A i \in (Len(events) + 1)..Len(events') : events'[i].req # r
          /\ (Len(events') > Len(events) /\ events'[Len(events')].req = r)
                => (pc[r] = "notify" /\ pc'[r] = "done" /\ resp'[r].code = 200)
C19_CheckoutEventOnce == [](C19_AtMostOnceAtEnd) /\ [][C19_EventStep]_vars
\* The checkout stops at its second item after recording and adjusting the
\* first; the only event is the one of the other request.
C19_Witness ==
    /\ reqs[1] = Body("checkout", AnnaR1, TRUE, <<Item("P1", None, 4), Item("PX", None, 1)>>)
    /\ resp[1].code = 404 /\ resp[2].code = 200
    /\ Count(1, "append", "Sales", 1) = 1 /\ Count(1, "update", "Stock", 1) = 1
    /\ stock[2] = <<"P1", "R1", "1">>
    /\ Len(events) = 1 /\ events[1].req = 2 /\ EventsOf(1) = {}

\* ------------------------------------------------------- equivalence claim
\* C20: the sale of an item that carries a key and the checkout of that item
\* alone, run from the same store contents, end with the same response code
\* and the same total and leave the same Sales rows and the same Stock tab.
C20_SaleEqualsCheckout ==
    (fout.called /\ pc[2] = "done") =>
        /\ resp[2].code = fout.resp.code
        /\ resp[2].total = fout.resp.total
        /\ sales = fout.sales
        /\ stock = fout.stock
\* The two runs do agree on every item whose qty int() accepts.
C20_EqualWhenQtyConverts ==
    IsInt(reqs[1].items[1].qty) => C20_SaleEqualsCheckout

====
